---- MODULE Spec2Model ----
(***************************************************************************)
(* A model of the 6502 CPU core of Chuck (crates/cpu/src/lib.rs): the      *)
(* Timing Control Unit, the interrupt timing pipelines and the Cpu         *)
(* aggregate.                                                              *)
(***************************************************************************)
EXTENDS Integers, Naturals, Sequences, FiniteSets, TLC

VARIABLES
    \* The fields of Cpu.
    pins, bus, regs, jammed, schedule, nmi_edge, irq_pip, nmi_pip, adl, opcode, tcu,
    \* The levels the bus peer drives on the input pins IRQ, NMI and RDY.
    peer,
    \* A Pipeline<MASK> driven on its own: [data, mask].
    pl,
    \* The last calls made on pl, newest first: [op, arg, pre], pre the data before the call.
    hist,
    \* Counters of the calls made on pl: [regs, since, held, kept, cut, undone, trimmed].
    cnt,
    \* A Tcu driven on its own: [start, state, n, resets, before]: n advance() calls
    \* were made from start; resets counts the reset() calls, before is the state the
    \* last of them found.  A reset() restarts the count at its result.
    tu

cpuVars == <<pins, bus, regs, jammed, schedule, nmi_edge, irq_pip, nmi_pip, adl, opcode, tcu, peer>>
vars == <<pins, bus, regs, jammed, schedule, nmi_edge, irq_pip, nmi_pip, adl, opcode, tcu, peer, pl, hist, cnt, tu>>

(***************************************************************************)
(* Machine arithmetic.  Pipeline.data is a u16; the bit operators below    *)
(* are the Rust operators &, |, << and >> on that width.                   *)
(***************************************************************************)
\* The number of values of a u16.
U16_RANGE == 65536

\* x & y.
RECURSIVE BitAnd(_, _)
BitAnd(x, y) ==
    IF x = 0 \/ y = 0 THEN 0
    ELSE (x % 2) * (y % 2) + 2 * BitAnd(x \div 2, y \div 2)

\* x | y.
BitOr(x, y) == x + y - BitAnd(x, y)

\* Bit i of x.
RECURSIVE BitAt(_, _)
BitAt(x, i) == IF i = 0 THEN x % 2 ELSE BitAt(x \div 2, i - 1)

\* The number of set bits of x.
RECURSIVE PopCount(_)
PopCount(x) == IF x = 0 THEN 0 ELSE (x % 2) + PopCount(x \div 2)

(***************************************************************************)
(* Pipeline<MASK>: the timing pipeline of one interrupt class.             *)
(***************************************************************************)
\* The bit register_with sets (self.data |= 0x100).
INPUT_BIT == 256

\* The bits trim keeps (self.data &= 0x3ff).
TRIM_MASK == 1023

\* MASK of Cpu::irq_pip, Pipeline<0x0400>.
IRQ_MASK == 1024

\* MASK of Cpu::nmi_pip, Pipeline<0xfc00>.
NMI_MASK == 64512

\* Pipeline { data: 0 }, the only way the source constructs a pipeline.
EmptyPipeline == 0

\* register_with() setting the bit whatever the pin.
register_with_always(data, pin) == BitOr(data, INPUT_BIT)

\* register_with() assigning the bit instead of ORing it in.
register_with_assign(data, pin) == IF pin THEN INPUT_BIT ELSE data

\* register_with() toggling the bit.
register_with_toggle(data, pin) ==
    IF pin
    THEN (IF BitAt(data, 8) = 1 THEN data - INPUT_BIT ELSE data + INPUT_BIT)
    ELSE data

\* register_with() setting the bit one position nearer to the masks.
register_with_late(data, pin) == IF pin THEN BitOr(data, 2 * INPUT_BIT) ELSE data

\* Pipeline::register_with(pin)
register_with(data, pin) == IF pin THEN BitOr(data, INPUT_BIT) ELSE data

\* is_serviceable() with the mask left out of the test.
is_serviceable_unmasked(data, MASK) == data # 0

\* is_serviceable() asking for every bit of the mask.
is_serviceable_all(data, MASK) == BitAnd(data, MASK) = MASK

\* Pipeline::is_serviceable()
is_serviceable(data, MASK) == BitAnd(data, MASK) # 0

\* trim() clearing nothing.
trim_none(data) == data

\* trim() clearing the bit of the IRQ window only.
trim_irq(data) == data - BitAnd(data, IRQ_MASK)

\* trim() keeping the bits of the recognition windows and clearing those below.
trim_window(data) == BitAnd(data, NMI_MASK)

\* trim() clearing the whole register.
trim_all(data) == 0

\* Pipeline::trim()
trim(data) == BitAnd(data, TRIM_MASK)

\* shift() rotating bit 15 into bit 0.
shift_rotate(data) == ((data * 2) % U16_RANGE) + (data \div (U16_RANGE \div 2))

\* Pipeline::shift(): self.data <<= 1 on a u16 drops bit 15.
shift(data) == (data * 2) % U16_RANGE

\* Pipeline::undo(): self.data >>= 1.
undo(data) == data \div 2

(***************************************************************************)
(* Tcu: the Timing Control Unit.                                           *)
(***************************************************************************)
\* enum State { T0, T1, T2, T3, T4, T5, T6, T7 }, in declaration order.
StateOrder == <<"T0", "T1", "T2", "T3", "T4", "T5", "T6", "T7">>

State == {StateOrder[i] : i \in 1..Len(StateOrder)}

\* The #[repr(u8)] discriminant of a State.
Discriminant(state) == CHOOSE i \in 0..(Len(StateOrder) - 1) : StateOrder[i + 1] = state

\* advance() leaving T7 for T1, past the fetch position.
advance_skip(state) ==
    CASE state = "T0" -> "T1"
      [] state = "T1" -> "T2"
      [] state = "T2" -> "T3"
      [] state = "T3" -> "T4"
      [] state = "T4" -> "T5"
      [] state = "T5" -> "T6"
      [] state = "T6" -> "T7"
      [] state = "T7" -> "T1"

\* Tcu::advance()
advance(state) ==
    CASE state = "T0" -> "T1"
      [] state = "T1" -> "T2"
      [] state = "T2" -> "T3"
      [] state = "T3" -> "T4"
      [] state = "T4" -> "T5"
      [] state = "T5" -> "T6"
      [] state = "T6" -> "T7"
      [] state = "T7" -> "T0"

\* reset() forcing the fetch position itself.
reset_fetch(state) == "T0"

\* Tcu::reset()
reset(state) == "T7"

(***************************************************************************)
(* Cpu                                                                     *)
(***************************************************************************)
\* Flags::I
FLAG_I == 4

\* Pins::SYNC, Pins::IRQ, Pins::NMI, Pins::RDY
PIN_SYNC == 1
PIN_IRQ == 2
PIN_NMI == 4
PIN_RDY == 8

\* const BRK: u8 = 0x00
BRK == 0

\* Cpu::new() with the Tcu on the fetch position itself.
NewCpu_fetch ==
    [pins |-> 0,
     bus |-> [addr |-> 0, data |-> 0, write |-> FALSE],
     regs |-> [flags |-> 0, a |-> 0, x |-> 0, y |-> 0, sp |-> 0, pc |-> 0],
     jammed |-> FALSE,
     schedule |-> "Res",
     nmi_edge |-> FALSE,
     irq_pip |-> EmptyPipeline,
     nmi_pip |-> EmptyPipeline,
     adl |-> 0,
     opcode |-> BRK,
     tcu |-> "T0"]

\* Cpu::new(): the struct it returns.
NewCpu ==
    [pins |-> 0,
     bus |-> [addr |-> 0, data |-> 0, write |-> FALSE],
     regs |-> [flags |-> 0, a |-> 0, x |-> 0, y |-> 0, sp |-> 0, pc |-> 0],
     jammed |-> FALSE,
     schedule |-> "Res",
     nmi_edge |-> FALSE,
     irq_pip |-> EmptyPipeline,
     nmi_pip |-> EmptyPipeline,
     adl |-> 0,
     opcode |-> BRK,
     tcu |-> "T7"]

\* The Cpu as a struct.
Cpu ==
    [pins |-> pins, bus |-> bus, regs |-> regs, jammed |-> jammed, schedule |-> schedule,
     nmi_edge |-> nmi_edge, irq_pip |-> irq_pip, nmi_pip |-> nmi_pip, adl |-> adl,
     opcode |-> opcode, tcu |-> tcu]

\* The state after construction.
CpuNew ==
    /\ pins = NewCpu.pins
    /\ bus = NewCpu.bus
    /\ regs = NewCpu.regs
    /\ jammed = NewCpu.jammed
    /\ schedule = NewCpu.schedule
    /\ nmi_edge = NewCpu.nmi_edge
    /\ irq_pip = NewCpu.irq_pip
    /\ nmi_pip = NewCpu.nmi_pip
    /\ adl = NewCpu.adl
    /\ opcode = NewCpu.opcode
    /\ tcu = NewCpu.tcu

\* The pipeline and the Tcu that are driven on their own, at rest.
PipeIdle ==
    /\ pl = [data |-> EmptyPipeline, mask |-> IRQ_MASK]
    /\ hist = <<>>
    /\ cnt = [regs |-> 0, since |-> 0, held |-> 0, kept |-> 0, cut |-> -1,
              undone |-> FALSE, trimmed |-> FALSE]

TcuIdle == tu = [start |-> "T7", state |-> "T7", n |-> 0, resets |-> 0, before |-> "T7"]

\* Pins::contains / Flags::contains: every bit of flag is set in bits.
Contains(bits, flag) == BitAnd(bits, flag) = flag

(***************************************************************************)
(* The opcode micro-operation table, an external collaborator of the core: *)
(* for (opcode, TCU position) it gives the cycle's bus transaction, its    *)
(* effect on the flags and the address latch, and whether the cycle is the *)
(* instruction's last.  The model carries five opcodes of the 6502: BRK    *)
(* (7 cycles, three of them writes), CLI and SEI (2 cycles), STA zero page *)
(* (3 cycles, the last a write) and one undefined (halting) opcode.        *)
(***************************************************************************)
JAM == 2
CLI == 88
SEI == 120
STA == 133

Opcodes == {BRK, JAM, CLI, SEI, STA}

\* The number of cycles of an instruction, the fetch cycle included.
Cycles(op) ==
    CASE op = BRK -> 7
      [] op = STA -> 3
      [] OTHER -> 2

\* The instruction's final cycle.
TableLast(op, t) == Discriminant(t) = Cycles(op) - 1

\* The cycle is a write.
TableWrite(op, t) ==
    \/ op = BRK /\ t \in {"T2", "T3", "T4"}
    \/ op = STA /\ t = "T2"

\* The flags after the cycle: the break sequence and SEI set InterruptDisable,
\* CLI clears it.
TableFlags(op, t, flags) ==
    CASE op = BRK /\ t = "T5" -> BitOr(flags, FLAG_I)
      [] op = SEI /\ t = "T1" -> BitOr(flags, FLAG_I)
      [] op = CLI /\ t = "T1" -> flags - BitAnd(flags, FLAG_I)
      [] OTHER -> flags

\* The bus address of the cycle and the value left in the address latch.
TableAddr(op, t, pc) == pc + Discriminant(t)

TableAdl(op, t) == Discriminant(t)

\* The table knows the opcode as undefined (halting).
Undefined(op) == op = JAM

(***************************************************************************)
(* Cpu::step, one clock cycle.  The source declares the state step works   *)
(* on (jammed, schedule, nmi_edge, irq_pip, nmi_pip, adl, opcode, tcu) and *)
(* the Pipeline and Tcu operations it calls; the body of step is taken     *)
(* from sections 4.4, 4.5 and 5 of the specification.  The bus peer drives *)
(* the input pins before the step (p) and has put the byte it read on the  *)
(* bus (d).                                                                *)
(***************************************************************************)
\* The machines around the core, each by the levels it drives on the input
\* pins: one with an IRQ source and a Ready line, one with an NMI source and a
\* Ready line, one that holds IRQ asserted and has an NMI source.
PeerProfiles ==
    { {0, PIN_IRQ, PIN_RDY, PIN_IRQ + PIN_RDY},
      {0, PIN_NMI, PIN_RDY, PIN_NMI + PIN_RDY},
      {PIN_IRQ, PIN_IRQ + PIN_NMI} }

\* Ready stalling write cycles too.
Stalled_any(p) == Contains(p, PIN_RDY)

\* Ready stalls read cycles only: the RDY pin is pulled and the transaction on
\* the bus is a read (Pins::RDY: "When set, this pin will stall the CPU's
\* execution of `read` cycles").
Stalled(p) == Contains(p, PIN_RDY) /\ ~bus.write

\* The step leaves the pipeline and the Tcu that are driven on their own alone.
harnessVars == <<peer, pl, hist, cnt, tu>>

\* A jammed processor that still shifts its pipelines.
StepJammed_shifting(p) ==
    /\ jammed
    /\ pins' = p + BitAnd(pins, PIN_SYNC)
    /\ irq_pip' = shift(register_with(irq_pip, Contains(p, PIN_IRQ)))
    /\ nmi_pip' = shift(nmi_pip)
    /\ UNCHANGED <<bus, regs, jammed, schedule, nmi_edge, adl, opcode, tcu>>
    /\ UNCHANGED harnessVars

\* The jammed processor: no bus transaction, no TCU advance, no pipeline shift.
StepJammed(p) ==
    /\ jammed
    /\ pins' = p + BitAnd(pins, PIN_SYNC)
    /\ UNCHANGED <<bus, regs, jammed, schedule, nmi_edge, irq_pip, nmi_pip, adl, opcode, tcu>>
    /\ UNCHANGED harnessVars

\* The interrupt sampling of every cycle: NMI registers its rising edge, IRQ
\* its level; both pipelines shift.
SampledNmi(p) == shift(register_with(nmi_pip, Contains(p, PIN_NMI) /\ ~nmi_edge))

SampledIrq(p) == shift(register_with(irq_pip, Contains(p, PIN_IRQ)))

\* A read cycle with Ready pulled: the speculative shifts are undone and the
\* TCU, the opcode and the address latch keep their values.
StepStalled(p) ==
    /\ ~jammed
    /\ Stalled(p)
    /\ pins' = p + BitAnd(pins, PIN_SYNC)
    /\ nmi_edge' = Contains(p, PIN_NMI)
    /\ nmi_pip' = undo(SampledNmi(p))
    /\ irq_pip' = undo(SampledIrq(p))
    /\ UNCHANGED <<bus, regs, jammed, schedule, adl, opcode, tcu>>
    /\ UNCHANGED harnessVars

\* The scheduler's decision at a fetch boundary, on the sampled pipelines: NMI
\* first, then IRQ unless InterruptDisable is set, else no interrupt.
Accepts_unmasked(nmi, irq, flags) ==
    IF is_serviceable(nmi, NMI_MASK) THEN "Nmi"
    ELSE IF is_serviceable(irq, IRQ_MASK) THEN "Irq"
    ELSE "None"

Accepts(nmi, irq, flags) ==
    IF is_serviceable(nmi, NMI_MASK) THEN "Nmi"
    ELSE IF is_serviceable(irq, IRQ_MASK) /\ ~Contains(flags, FLAG_I) THEN "Irq"
    ELSE "None"

\* The cycle at the fetch position: the scheduler decides between an interrupt
\* sequence (the break opcode) and the opcode d the peer put on the bus.
StepFetch(p, d) ==
    /\ ~jammed
    /\ ~Stalled(p)
    /\ advance(tcu) = "T0"
    /\ tcu' = advance(tcu)
    /\ pins' = p + PIN_SYNC
    /\ nmi_edge' = Contains(p, PIN_NMI)
    /\ LET accepted == Accepts(SampledNmi(p), SampledIrq(p), regs.flags)
       IN  /\ nmi_pip' = IF accepted = "Nmi" THEN trim(SampledNmi(p)) ELSE SampledNmi(p)
           /\ irq_pip' = IF accepted = "Irq" THEN trim(SampledIrq(p)) ELSE SampledIrq(p)
           /\ schedule' = IF accepted = "None" THEN schedule ELSE accepted
           /\ opcode' = IF accepted = "None" THEN d ELSE BRK
           /\ jammed' = (accepted = "None" /\ Undefined(d))
    /\ bus' = [addr |-> TableAddr(opcode', tcu', regs.pc), data |-> d, write |-> FALSE]
    /\ UNCHANGED <<regs, adl>>
    /\ UNCHANGED harnessVars

\* Any other cycle of the instruction: the table's micro-operation.
StepExecute(p) ==
    /\ ~jammed
    /\ ~Stalled(p)
    /\ advance(tcu) # "T0"
    /\ tcu' = IF TableLast(opcode, advance(tcu)) THEN reset(advance(tcu)) ELSE advance(tcu)
    /\ pins' = p
    /\ nmi_edge' = Contains(p, PIN_NMI)
    /\ nmi_pip' = SampledNmi(p)
    /\ irq_pip' = SampledIrq(p)
    /\ bus' = [addr |-> TableAddr(opcode, advance(tcu), regs.pc),
               data |-> regs.a,
               write |-> TableWrite(opcode, advance(tcu))]
    /\ regs' = [regs EXCEPT !.flags = TableFlags(opcode, advance(tcu), regs.flags)]
    /\ adl' = TableAdl(opcode, advance(tcu))
    /\ UNCHANGED <<jammed, schedule, opcode>>
    /\ UNCHANGED harnessVars


Init ==
    /\ CpuNew
    /\ peer \in PeerProfiles
    /\ PipeIdle
    /\ TcuIdle

\* The external reset: the host re-enters the constructed state.
HostReset ==
    /\ Cpu # NewCpu
    /\ pins' = NewCpu.pins
    /\ bus' = NewCpu.bus
    /\ regs' = NewCpu.regs
    /\ jammed' = NewCpu.jammed
    /\ schedule' = NewCpu.schedule
    /\ nmi_edge' = NewCpu.nmi_edge
    /\ irq_pip' = NewCpu.irq_pip
    /\ nmi_pip' = NewCpu.nmi_pip
    /\ adl' = NewCpu.adl
    /\ opcode' = NewCpu.opcode
    /\ tcu' = NewCpu.tcu
    /\ UNCHANGED harnessVars

Next ==
    \/ HostReset
    \/ \E p \in peer : StepJammed(p)
    \/ \E p \in peer : StepStalled(p)
    \/ \E p \in peer, d \in Opcodes : StepFetch(p, d)
    \/ \E p \in peer : StepExecute(p)

Spec == Init /\ [][Next]_vars

\* A clock cycle (not the external reset), and what the bus peer did in it.
IsStep == Cpu' # NewCpu

NmiRose == Contains(pins', PIN_NMI) /\ ~Contains(pins, PIN_NMI)

IrqHeld == Contains(pins', PIN_IRQ)

\* The cycle was a read cycle with Ready pulled.
StallCycle == ~jammed /\ Contains(pins', PIN_RDY) /\ ~bus.write

\* The cycle reached the fetch position.
FetchBoundary == ~jammed /\ tcu # "T0" /\ tcu' = "T0"

(***************************************************************************)
(* C4: the NMI pipeline gets a new entry only in a cycle where the NMI pin *)
(* is asserted and was not at the previous sample (nmi_edge): holding NMI  *)
(* asserted adds no further entry, a deassert and reassert adds a second   *)
(* one.  The new entry is bit 0x200 after the cycle's shift, 0x100 when the*)
(* cycle stalled (where an entry of an earlier stalled cycle may still sit)*)
(***************************************************************************)
C4_NmiEdgeSensitive ==
    [][(IsStep /\ ~jammed) =>
        LET newest == IF StallCycle THEN 256 ELSE 512
        IN  /\ nmi_edge = Contains(pins, PIN_NMI)
            /\ (BitAnd(nmi_pip', newest) # 0) <=> (NmiRose \/ BitAnd(nmi_pip, 256) # 0)
            /\ PopCount(nmi_pip') <= PopCount(nmi_pip) + (IF NmiRose THEN 1 ELSE 0)]_vars

\* NMI was asserted, deasserted and reasserted: two entries are in the pipeline.
C4_Witness == Contains(pins, PIN_NMI) /\ PopCount(nmi_pip) = 2 /\ ~jammed

(***************************************************************************)
(* C6: at a fetch boundary with InterruptDisable set and no serviceable    *)
(* NMI, schedule keeps its value and the IRQ pipeline is not trimmed,      *)
(* however long IRQ has been asserted.                                     *)
(***************************************************************************)
C6_MaskedIrq ==
    [][(IsStep /\ FetchBoundary /\ BitAnd(regs.flags, 4) # 0
              /\ ~is_serviceable(shift(register_with(nmi_pip, NmiRose)), NMI_MASK)) =>
        /\ schedule' = schedule
        /\ irq_pip' = shift(register_with(irq_pip, IrqHeld))]_vars

\* A fetch boundary was passed with InterruptDisable set and the IRQ pipeline serviceable.
C6_Witness ==
    /\ tcu = "T0"
    /\ ~jammed
    /\ BitAnd(regs.flags, 4) # 0
    /\ Contains(pins, PIN_IRQ)
    /\ is_serviceable(irq_pip, IRQ_MASK)
    /\ schedule = "Res"

(***************************************************************************)
(* C7: at a fetch boundary a serviceable NMI pipeline is trimmed and       *)
(* schedule becomes Nmi, whatever the IRQ pipeline and InterruptDisable    *)
(* are, and the IRQ pipeline is not trimmed; otherwise a serviceable IRQ   *)
(* pipeline with InterruptDisable clear is trimmed and schedule becomes    *)
(* Irq; otherwise schedule and both pipelines are left as sampled.         *)
(***************************************************************************)
C7_SchedulerPriority ==
    [][(IsStep /\ FetchBoundary) =>
        LET nmi == shift(register_with(nmi_pip, NmiRose))
            irq == shift(register_with(irq_pip, IrqHeld))
            masked == BitAnd(regs.flags, 4) # 0
        IN  IF BitAnd(nmi, NMI_MASK) # 0
            THEN /\ schedule' = "Nmi"
                 /\ nmi_pip' = BitAnd(nmi, 1023)
                 /\ irq_pip' = irq
            ELSE IF BitAnd(irq, IRQ_MASK) # 0 /\ ~masked
            THEN /\ schedule' = "Irq"
                 /\ irq_pip' = BitAnd(irq, 1023)
                 /\ nmi_pip' = nmi
            ELSE /\ schedule' = schedule
                 /\ irq_pip' = irq
                 /\ nmi_pip' = nmi]_vars

\* NMI was accepted at a boundary where the IRQ pipeline was serviceable too and
\* InterruptDisable was clear.
C7_Witness ==
    /\ tcu = "T0"
    /\ schedule = "Nmi"
    /\ opcode = BRK
    /\ ~Contains(regs.flags, FLAG_I)
    /\ is_serviceable(irq_pip, IRQ_MASK)
    /\ ~is_serviceable(nmi_pip, NMI_MASK)

C9_JamPersistence ==
    [][jammed =>
        \/ Cpu' = NewCpu
        \/ /\ jammed'
           /\ bus' = bus
           /\ tcu' = tcu
           /\ irq_pip' = irq_pip
           /\ nmi_pip' = nmi_pip
           /\ opcode' = opcode
           /\ schedule' = schedule]_vars

\* A step of the jammed processor with IRQ asserted: the level of the fetch
\* that jammed was not asserted (no entry at 0x200), and none was registered.
C9_Witness == jammed /\ Contains(pins, PIN_IRQ) /\ irq_pip = 0

(***************************************************************************)
(* C12: in the constructed state all pins and flags are empty, the         *)
(* registers and the bus are zero (the bus a read), both pipelines are     *)
(* empty and not serviceable, jammed and nmi_edge are false, adl is 0, the *)
(* opcode is the break opcode 0x00, schedule is Res, and the Tcu is at T7, *)
(* so that the first advance() is at the fetch position T0.                *)
(***************************************************************************)
C12_ConstructedState ==
    Cpu = NewCpu =>
        /\ pins = 0
        /\ bus = [addr |-> 0, data |-> 0, write |-> FALSE]
        /\ regs = [flags |-> 0, a |-> 0, x |-> 0, y |-> 0, sp |-> 0, pc |-> 0]
        /\ irq_pip = 0 /\ ~is_serviceable(irq_pip, IRQ_MASK)
        /\ nmi_pip = 0 /\ ~is_serviceable(nmi_pip, NMI_MASK)
        /\ ~jammed
        /\ ~nmi_edge
        /\ adl = 0
        /\ opcode = 0
        /\ schedule = "Res"
        /\ tcu = "T7"
        /\ advance(tcu) = "T0"

\* The constructed state, for a machine with an NMI source and a Ready line.
C12_Witness == Cpu = NewCpu /\ PIN_NMI \in peer

(***************************************************************************)
(* A pipeline driven on its own, from the empty pipeline, by the calls the *)
(* type offers, in the order a cycle makes them: register_with(pin), then  *)
(* shift(), then undo() if the cycle stalled (only on an uncommitted       *)
(* shift), and trim() only on a serviceable pipeline (an accepted          *)
(* interrupt).                                                             *)
(***************************************************************************)
\* How many calls hist remembers.
HistLen == 2

\* cnt.regs counts the register_with(true) calls up to MaxRegs.
MaxRegs == 3

\* cnt.since counts the shift() calls since the last register_with(true) up to MaxSince.
MaxSince == 10

\* cnt.held counts, up to MaxHeld, the latest consecutive cycles (register_with(pin);
\* shift()) that registered pin = true; cnt.kept counts those of them whose bit no
\* trim() has cleared: a trim keeps the newest only.
MaxHeld == 8

\* cnt.cut counts, up to MaxCut, the shift() calls since the last trim() as long as
\* only register_with(false) and shift() were called since; it is -1 otherwise.
MaxCut == 4

Min(a, b) == IF a < b THEN a ELSE b

Remember(op, arg) ==
    SubSeq(<<[op |-> op, arg |-> arg, pre |-> pl.data]>> \o hist, 1, Min(Len(hist) + 1, HistLen))

PipeInit ==
    /\ CpuNew
    /\ peer = {0}
    /\ pl \in {[data |-> EmptyPipeline, mask |-> m] : m \in {IRQ_MASK, NMI_MASK}}
    /\ hist = <<>>
    /\ cnt = [regs |-> 0, since |-> 0, held |-> 0, kept |-> 0, cut |-> -1,
              undone |-> FALSE, trimmed |-> FALSE]
    /\ TcuIdle

PRegisterWith(pin) ==
    /\ pl' = [pl EXCEPT !.data = register_with(pl.data, pin)]
    /\ hist' = Remember("register_with", pin)
    /\ cnt' = IF pin
              THEN [cnt EXCEPT !.regs = Min(cnt.regs + 1, MaxRegs), !.since = 0, !.cut = -1]
              ELSE cnt
    /\ UNCHANGED <<cpuVars, tu>>

PShift ==
    /\ hist # <<>>
    /\ hist[1].op = "register_with"
    /\ pl' = [pl EXCEPT !.data = shift(pl.data)]
    /\ hist' = Remember("shift", FALSE)
    /\ cnt' = [cnt EXCEPT
                 !.since = IF cnt.regs > 0 THEN Min(cnt.since + 1, MaxSince) ELSE 0,
                 !.held = IF hist[1].arg THEN Min(cnt.held + 1, MaxHeld) ELSE 0,
                 !.kept = IF hist[1].arg THEN Min(cnt.kept + 1, MaxHeld) ELSE 0,
                 !.cut = IF cnt.cut >= 0 THEN Min(cnt.cut + 1, MaxCut) ELSE -1]
    /\ UNCHANGED <<cpuVars, tu>>

PUndo ==
    /\ hist # <<>>
    /\ hist[1].op = "shift"
    /\ pl' = [pl EXCEPT !.data = undo(pl.data)]
    /\ hist' = Remember("undo", FALSE)
    /\ cnt' = [cnt EXCEPT !.undone = TRUE, !.cut = -1]
    /\ UNCHANGED <<cpuVars, tu>>

PTrim ==
    /\ is_serviceable(pl.data, pl.mask)
    /\ pl' = [pl EXCEPT !.data = trim(pl.data)]
    /\ hist' = Remember("trim", FALSE)
    /\ cnt' = [cnt EXCEPT !.trimmed = TRUE, !.kept = Min(cnt.kept, 1), !.cut = 0]
    /\ UNCHANGED <<cpuVars, tu>>

PipeNext ==
    \/ \E pin \in BOOLEAN : PRegisterWith(pin)
    \/ PShift
    \/ PUndo
    \/ PTrim

SpecPipeline == PipeInit /\ [][PipeNext]_vars

\* The last call, and the call before it.
LastOp(op) == hist # <<>> /\ hist[1].op = op

LastOps(op2, op1) == Len(hist) >= 2 /\ hist[2].op = op2 /\ hist[1].op = op1

\* The last calls were register_with(b); shift(); undo() (PShift follows a register_with).
StalledCycle ==
    /\ Len(hist) >= 2
    /\ hist[1].op = "undo"
    /\ hist[2].op = "shift"

(***************************************************************************)
(* C1: after register_with(b); shift(); undo() the register equals its     *)
(* value immediately before shift(): undo is an exact inverse of shift.    *)
(***************************************************************************)
C1_ShiftUndoInverse == StalledCycle => pl.data = hist[2].pre

(***************************************************************************)
(* C2: a shift() undone by undo() in a stalled cycle leaves                *)
(* is_serviceable() of the pipeline as it was before the shift.            *)
(***************************************************************************)
C2_StallKeepsServiceable ==
    StalledCycle => (is_serviceable(pl.data, pl.mask) <=> is_serviceable(hist[2].pre, pl.mask))

\* One request was registered, and since then the pipeline was only shifted
\* (register_with(false) and shift() each cycle, no undo, no trim).
SingleRequest == cnt.regs = 1 /\ ~cnt.undone /\ ~cnt.trimmed

(***************************************************************************)
(* C3: from the empty IRQ pipeline, one register_with(true) followed by    *)
(* register_with(false) and shift() each cycle makes is_serviceable() true *)
(* at exactly one shift count (the latched bit under the IRQ mask) and     *)
(* false before the request, before that count and after it.  The count   *)
(* is 2: 0x100 shifted twice is 0x400, the IRQ mask.                       *)
(***************************************************************************)
C3_IrqSingleBitWindow ==
    pl.mask = IRQ_MASK =>
        /\ cnt.regs = 0 => ~is_serviceable(pl.data, pl.mask)
        /\ SingleRequest => (is_serviceable(pl.data, pl.mask) <=> cnt.since = 2)

C3_Witness ==
    /\ pl.mask = IRQ_MASK
    /\ SingleRequest
    /\ cnt.since = 2
    /\ is_serviceable(pl.data, pl.mask)
    /\ hist[1].op = "shift"

\* The bits 0x200, 0x400, ... of the latest n cycles are all set; the register
\* has room for 7 of them.
LatchedPerCycle(n) == \A j \in 1..Min(n, 7) : BitAt(pl.data, 8 + j) = 1

(***************************************************************************)
(* C5 as stated: after n consecutive non-stalled cycles with IRQ asserted  *)
(* the IRQ pipeline holds one latched bit per cycle, until bits age out.   *)
(***************************************************************************)
C5_OneBitPerHeldCycle ==
    (pl.mask = IRQ_MASK /\ ~cnt.undone) => LatchedPerCycle(cnt.held)

(***************************************************************************)
(* C5 as amended: after n consecutive non-stalled cycles with IRQ asserted *)
(* the IRQ pipeline holds one latched bit for each of those cycles that no *)
(* acceptance has trimmed since (trim keeps the newest entry only), until  *)
(* bits age out; without a trim that is one bit per held cycle.            *)
(***************************************************************************)
C5_OneBitPerUntrimmedCycle ==
    (pl.mask = IRQ_MASK /\ ~cnt.undone) =>
        /\ LatchedPerCycle(cnt.kept)
        /\ ~cnt.trimmed => cnt.kept = cnt.held

\* IRQ was held for 5 cycles, accepted after the third: the bits of the last 3 are held.
C5_Witness ==
    /\ pl.mask = IRQ_MASK
    /\ ~cnt.undone
    /\ cnt.held = 5
    /\ cnt.kept = 3
    /\ pl.data = 512 + 1024 + 2048

(***************************************************************************)
(* C16: with IRQ asserted on every cycle (register_with(true); shift()),   *)
(* the cycle after a trim() of the serviceable IRQ pipeline makes it       *)
(* serviceable again, with no deassertion in between; with IRQ deasserted  *)
(* from the trim() on, the pipeline is serviceable only where a sample     *)
(* latched before the trim() reaches the mask, within 2 shifts of the      *)
(* trim(), and never after.                                                *)
(***************************************************************************)
C16_IrqServedWhileHeld ==
    [][pl.mask = IRQ_MASK =>
        /\ ( /\ ~cnt.undone
             /\ cnt.held >= 1
             /\ Len(hist) >= 2 /\ hist[2].op = "trim"
             /\ hist[1].op = "register_with" /\ hist[1].arg
             /\ hist'[1].op = "shift" )
           => is_serviceable(pl'.data, IRQ_MASK)
        /\ (cnt'.cut >= 0 /\ is_serviceable(pl'.data, IRQ_MASK))
           => /\ cnt'.cut \in 1..2
              /\ hist'[1].op = "shift" => BitAt(pl.data, 9) = 1]_vars

\* IRQ was held for 3 cycles and accepted after the second: the third cycle made
\* the pipeline serviceable again.
C16_Witness ==
    /\ pl.mask = IRQ_MASK
    /\ ~cnt.undone
    /\ cnt.trimmed
    /\ cnt.held = 3
    /\ cnt.kept = 2
    /\ LastOps("register_with", "shift")
    /\ is_serviceable(pl.data, IRQ_MASK)

(***************************************************************************)
(* C17: a bit shifted past bit 15 is lost: shift() leaves bit 0 clear and  *)
(* the other bits one position up.  For both pipelines, absent undo, 8     *)
(* shift() calls after the last register_with(true) leave the register     *)
(* empty and is_serviceable() false, and they stay so while no request is  *)
(* registered.                                                             *)
(***************************************************************************)
C17_RequestsAgeOut ==
    /\ LastOp("shift") =>
          /\ BitAt(pl.data, 0) = 0
          /\ \A i \in 1..15 : BitAt(pl.data, i) = BitAt(hist[1].pre, i - 1)
    /\ (cnt.regs > 0 /\ ~cnt.undone /\ cnt.since >= 8) =>
          /\ pl.data = EmptyPipeline
          /\ ~is_serviceable(pl.data, pl.mask)

\* The eighth shift() after the only request dropped it from bit 15 of an NMI pipeline.
C17_Witness ==
    /\ pl.mask = NMI_MASK
    /\ ~cnt.undone
    /\ cnt.since = 8
    /\ LastOp("shift")
    /\ hist[1].pre = 32768
    /\ pl.data = EmptyPipeline

\* The shape of the two masks.
MasksNested ==
    /\ PopCount(IRQ_MASK) = 1
    /\ \E lo, hi \in 0..15 :
          \A i \in 0..15 : (BitAt(NMI_MASK, i) = 1) <=> (lo <= i /\ i <= hi)
    /\ BitAnd(NMI_MASK, IRQ_MASK) = IRQ_MASK

(***************************************************************************)
(* C18: the IRQ mask is one bit, the NMI mask is a contiguous range of     *)
(* bits that contains it, and so, after any calls, a register that is      *)
(* serviceable under the IRQ mask is serviceable under the NMI mask.       *)
(***************************************************************************)
C18_RecognitionMasks ==
    /\ MasksNested
    /\ is_serviceable(pl.data, IRQ_MASK) => is_serviceable(pl.data, NMI_MASK)

\* An NMI pipeline whose register is serviceable under the IRQ mask.
C18_Witness ==
    /\ pl.mask = NMI_MASK
    /\ is_serviceable(pl.data, IRQ_MASK)
    /\ is_serviceable(pl.data, pl.mask)

(***************************************************************************)
(* C19: from the empty NMI pipeline, with one request registered and no    *)
(* trim or undo, is_serviceable() is false after 0 or 1 shifts, true after *)
(* k shifts for 2 <= k <= 7 and false for k >= 8; the window opens at the  *)
(* shift count at which the IRQ mask is reached.                           *)
(***************************************************************************)
C19_NmiWindow ==
    (pl.mask = NMI_MASK /\ SingleRequest) =>
        /\ is_serviceable(pl.data, pl.mask) <=> (2 <= cnt.since /\ cnt.since <= 7)
        /\ is_serviceable(pl.data, IRQ_MASK) <=> cnt.since = 2

\* The last cycle of the window: the request is at bit 15.
C19_Witness ==
    /\ pl.mask = NMI_MASK
    /\ SingleRequest
    /\ cnt.since = 7
    /\ pl.data = 32768
    /\ is_serviceable(pl.data, pl.mask)

(***************************************************************************)
(* The operations of Pipeline<MASK> as functions of the register: from     *)
(* every register value with at most MaxBits bits set, for both masks, up  *)
(* to HistLen calls are made, in any order and with no condition.          *)
(***************************************************************************)
\* How many bits of the register the starting values have set.
MaxBits == 3

Registers == {d \in 0..(U16_RANGE - 1) : PopCount(d) <= MaxBits}

OpsInit ==
    /\ CpuNew
    /\ peer = {0}
    /\ pl \in {[data |-> d, mask |-> m] : d \in Registers, m \in {IRQ_MASK, NMI_MASK}}
    /\ hist = <<>>
    /\ cnt = [regs |-> 0, since |-> 0, held |-> 0, kept |-> 0, cut |-> -1,
              undone |-> FALSE, trimmed |-> FALSE]
    /\ TcuIdle

ORegisterWith(pin) ==
    /\ Len(hist) < HistLen
    /\ pl' = [pl EXCEPT !.data = register_with(pl.data, pin)]
    /\ hist' = Remember("register_with", pin)
    /\ UNCHANGED <<cpuVars, cnt, tu>>

OShift ==
    /\ Len(hist) < HistLen
    /\ pl' = [pl EXCEPT !.data = shift(pl.data)]
    /\ hist' = Remember("shift", FALSE)
    /\ UNCHANGED <<cpuVars, cnt, tu>>

OUndo ==
    /\ Len(hist) < HistLen
    /\ pl' = [pl EXCEPT !.data = undo(pl.data)]
    /\ hist' = Remember("undo", FALSE)
    /\ UNCHANGED <<cpuVars, cnt, tu>>

OTrim ==
    /\ Len(hist) < HistLen
    /\ pl' = [pl EXCEPT !.data = trim(pl.data)]
    /\ hist' = Remember("trim", FALSE)
    /\ UNCHANGED <<cpuVars, cnt, tu>>

OpsNext ==
    \/ \E pin \in BOOLEAN : ORegisterWith(pin)
    \/ OShift
    \/ OUndo
    \/ OTrim

SpecOps == OpsInit /\ [][OpsNext]_vars

(***************************************************************************)
(* C13: for both masks and every register value is_serviceable() is false  *)
(* right after trim(); and a pipeline whose single latched request was     *)
(* serviceable when trim() was called is empty after it, and an empty      *)
(* pipeline stays empty under shift(), so that no later sequence of        *)
(* shift() calls makes is_serviceable() true again.                        *)
(***************************************************************************)
C13_TrimPreventsDoubleService ==
    /\ LastOp("trim") =>
          /\ ~is_serviceable(pl.data, IRQ_MASK)
          /\ ~is_serviceable(pl.data, NMI_MASK)
          /\ (PopCount(hist[1].pre) = 1 /\ is_serviceable(hist[1].pre, pl.mask)) =>
                pl.data = EmptyPipeline
    /\ (LastOp("shift") /\ hist[1].pre = EmptyPipeline) =>
          /\ pl.data = EmptyPipeline
          /\ ~is_serviceable(pl.data, pl.mask)

\* A single serviceable NMI request (0x2000) was trimmed, and a shift() followed.
C13_Witness ==
    /\ pl.mask = NMI_MASK
    /\ LastOps("trim", "shift")
    /\ hist[2].pre = 8192
    /\ hist[1].pre = EmptyPipeline
    /\ ~is_serviceable(pl.data, pl.mask)

\* Bit i of the register is as it was before the last call.
Kept(i) == BitAt(pl.data, i) = BitAt(hist[1].pre, i)

(***************************************************************************)
(* C14 as stated: after trim() every bit below a fixed boundary is 0 and   *)
(* every bit at or above the recognition window (bits 10..15, the bits of  *)
(* the two masks) is unchanged.                                            *)
(***************************************************************************)
C14_TrimClearsBelow ==
    LastOp("trim") =>
        \E b \in 1..10 :
            /\ \A i \in 0..(b - 1) : BitAt(pl.data, i) = 0
            /\ \A i \in 10..15 : Kept(i)

(***************************************************************************)
(* C14 as amended: after trim() every bit at or above the boundary 0x400   *)
(* (bits 10..15, the recognition windows of both masks) is 0 and every bit *)
(* below it (bits 0..9) is unchanged.                                      *)
(***************************************************************************)
C14_TrimClearsWindow ==
    LastOp("trim") =>
        /\ \A i \in 10..15 : BitAt(pl.data, i) = 0
        /\ \A i \in 0..9 : Kept(i)

\* 0x8600 was trimmed to 0x200: bits 10 and 15 cleared, bit 9 kept.
C14_Witness == LastOp("trim") /\ hist[1].pre = 34304 /\ pl.data = 512

(***************************************************************************)
(* C15: register_with(false) leaves the register unchanged;                *)
(* register_with(true) sets bit 8 (0x100) and leaves every other bit       *)
(* unchanged; register_with(true) called twice in a row gives the register *)
(* that one call gives.                                                    *)
(***************************************************************************)
C15_RegisterWithFrame ==
    /\ LastOp("register_with") =>
          /\ ~hist[1].arg => pl.data = hist[1].pre
          /\ hist[1].arg =>
                /\ BitAt(pl.data, 8) = 1
                /\ \A i \in (0..15) \ {8} : Kept(i)
    /\ (LastOps("register_with", "register_with") /\ hist[1].arg /\ hist[2].arg) =>
          pl.data = hist[1].pre

\* register_with(true) was called twice on 0x8001.
C15_Witness ==
    /\ LastOps("register_with", "register_with")
    /\ hist[1].arg /\ hist[2].arg
    /\ hist[2].pre = 32769
    /\ pl.data = 33025

(***************************************************************************)
(* A Tcu driven on its own: advance() called again and again from every    *)
(* state.                                                                  *)
(***************************************************************************)
\* How many advance() calls are counted.
MaxAdvance == 17

\* How many reset() calls are made.
MaxResets == 2

TcuInit ==
    /\ CpuNew
    /\ peer = {0}
    /\ PipeIdle
    /\ \E s \in State : tu = [start |-> s, state |-> s, n |-> 0, resets |-> 0, before |-> s]

TAdvance ==
    /\ tu.n < MaxAdvance
    /\ tu' = [tu EXCEPT !.state = advance(tu.state), !.n = tu.n + 1]
    /\ UNCHANGED <<cpuVars, pl, hist, cnt>>

TReset ==
    /\ tu.resets < MaxResets
    /\ tu' = [start |-> reset(tu.state), state |-> reset(tu.state), n |-> 0,
              resets |-> tu.resets + 1, before |-> tu.state]
    /\ UNCHANGED <<cpuVars, pl, hist, cnt>>

TcuNext ==
    \/ TAdvance
    \/ TReset

SpecTcu == TcuInit /\ [][TcuNext]_vars

(***************************************************************************)
(* C10: advance() is total on the 8 states and steps T0 -> T1 -> ... ->    *)
(* T7 -> T0; n calls from S are back at S exactly when n is a multiple of  *)
(* 8, so 8 calls return to S and 1..7 calls never do.                      *)
(***************************************************************************)
C10_TcuRing ==
    /\ tu.state \in State
    /\ Discriminant(tu.state) = (Discriminant(tu.start) + tu.n) % 8
    /\ (tu.state = tu.start) <=> (tu.n % 8 = 0)

C10_Witness == tu.start = "T3" /\ tu.n = 8 /\ tu.state = "T3"

(***************************************************************************)
(* C11: from every state reset() forces T7, the position before the fetch  *)
(* position, so reset() followed by exactly one advance() is at T0         *)
(* whatever the state before the reset was; a second reset() right after   *)
(* the first leaves T7 (reset is idempotent).                              *)
(***************************************************************************)
C11_TcuReset ==
    tu.resets > 0 =>
        /\ tu.start = "T7"
        /\ tu.n = 0 => tu.state = "T7"
        /\ tu.n = 1 => tu.state = "T0"
        /\ (tu.n = 0 /\ tu.resets > 1 /\ tu.before = "T7") => tu.state = tu.before

\* reset() found the Tcu at T3, and one advance() followed.
C11_Witness == tu.resets = 1 /\ tu.before = "T3" /\ tu.n = 1 /\ tu.state = "T0"

====
